---- MODULE Spec2Model ----
(***************************************************************************)
(* Model of the flow executor of the WhatsApp chatbot builder:             *)
(* processMessage / executeNode over the Redis session keys of one         *)
(* (project, user) pair, for a family of small flow graphs.                *)
(*                                                                         *)
(* Texts are sequences of one-character strings so that trim, lower-casing *)
(* and the validators are computed the way the code computes them.         *)
(***************************************************************************)
EXTENDS Integers, Sequences, FiniteSets, TLC

None == "none"

(***************************** bounds *************************************)
\* the per-event log of outbound sends keeps at most MaxSent entries
MaxSent == 4
\* the per-event count of executed nodes saturates at MaxSteps
MaxSteps == 6
\* the count of consecutive non-advancing replies saturates at MaxStuck
MaxStuck == 4

(***************************** strings ************************************)
UpperChars == <<"A","B","C","D","E","F","G","H","I","J","K","L","M",
                "N","O","P","Q","R","S","T","U","V","W","X","Y","Z">>
LowerChars == <<"a","b","c","d","e","f","g","h","i","j","k","l","m",
                "n","o","p","q","r","s","t","u","v","w","x","y","z">>
Digits == {"0","1","2","3","4","5","6","7","8","9"}
DigitChars == <<"1","2","3","4","5","6","7","8","9">>

IsSpace(c) == c \in {" ", "\t", "\n"}

ToLowerChar(c) ==
  IF \E i \in 1..26 : UpperChars[i] = c
    THEN LowerChars[CHOOSE i \in 1..26 : UpperChars[i] = c]
    ELSE c

\* String.prototype.toLowerCase
toLowerCase(s) == [i \in 1..Len(s) |-> ToLowerChar(s[i])]

\* String.prototype.trim
trim(s) ==
  IF \A i \in 1..Len(s) : IsSpace(s[i]) THEN <<>>
  ELSE LET a == CHOOSE i \in 1..Len(s) :
                  ~IsSpace(s[i]) /\ \A j \in 1..(i-1) : IsSpace(s[j])
           b == CHOOSE i \in 1..Len(s) :
                  ~IsSpace(s[i]) /\ \A j \in (i+1)..Len(s) : IsSpace(s[j])
       IN SubSeq(s, a, b)

\* replace(/\s+/g, "_"): every maximal run of whitespace becomes one "_"
\* (the last character of the run is replaced, the others are dropped)
ReplaceSpaces(s) ==
  LET marked == [i \in 1..Len(s) |->
                   IF ~IsSpace(s[i]) THEN s[i]
                   ELSE IF i < Len(s) /\ IsSpace(s[i+1]) THEN "drop"
                   ELSE "_"]
  IN SelectSeq(marked, LAMBDA c : c # "drop")

\* normalizeLabel replacing every whitespace character by its own "_"
normalizeLabel_EachSpace(label) ==
  [i \in 1..Len(toLowerCase(trim(label))) |->
     IF IsSpace(toLowerCase(trim(label))[i]) THEN "_"
     ELSE toLowerCase(trim(label))[i]]

normalizeLabel(label) == ReplaceSpaces(toLowerCase(trim(label)))

\* `btn_${index + 1}_${normalizeLabel(btn)}` (index is 0-based in the code,
\* i is the 1-based position here)
ButtonId(i, btn) == <<"b","t","n","_", DigitChars[i], "_">> \o normalizeLabel(btn)

\* String.prototype.includes
includes(s, k) ==
  \E i \in 1..(Len(s) - Len(k) + 1) : SubSeq(s, i, i + Len(k) - 1) = k

\* /^[^\s@]+@[^\s@]+\.[^\s@]+$/
NotSpaceAt(c) == ~IsSpace(c) /\ c # "@"
emailRegex(s) ==
  \E i \in 2..(Len(s) - 3) :
    /\ s[i] = "@"
    /\ \A k \in 1..Len(s) : k # i => NotSpaceAt(s[k])
    /\ \E j \in (i+2)..(Len(s) - 1) : s[j] = "."

\* /^\+?\d{10,15}$/
phoneRegex(s) ==
  LET d == IF Len(s) > 0 /\ s[1] = "+" THEN Tail(s) ELSE s
  IN /\ Len(d) >= 10 /\ Len(d) <= 15
     /\ \A k \in 1..Len(d) : d[k] \in Digits

\* /^(https?:\/\/)?[\w.-]+(\.[\w\.-]+)+[\w\-\._~:\/?#\[\]@!\$&'\(\)\*\+,;=.]+$/
IsWord(c) ==
  \/ c \in Digits
  \/ c = "_"
  \/ \E i \in 1..26 : c = UpperChars[i] \/ c = LowerChars[i]
IsHostChar(c) == IsWord(c) \/ c \in {".", "-"}
IsUrlTail(c) ==
  IsWord(c) \/ c \in {"-", ".", "_", "~", ":", "/", "?", "#", "[", "]", "@",
                      "!", "$", "&", "'", "(", ")", "*", "+", ",", ";", "="}
HttpPrefix == <<"h","t","t","p",":","/","/">>
HttpsPrefix == <<"h","t","t","p","s",":","/","/">>
UrlBody(s) ==
  \* X = s[1..a] in [\w.-]+, Y = s[a+1..b] = "." then [\w.-]+, Z = s[b+1..]
  \E a \in 1..Len(s) : \E b \in (a+2)..(Len(s) - 1) :
    /\ \A k \in 1..b : IsHostChar(s[k])
    /\ s[a+1] = "."
    /\ \A k \in (b+1)..Len(s) : IsUrlTail(s[k])
urlRegex(s) ==
  \/ UrlBody(s)
  \/ Len(s) > 7 /\ SubSeq(s, 1, 7) = HttpPrefix /\ UrlBody(SubSeq(s, 8, Len(s)))
  \/ Len(s) > 8 /\ SubSeq(s, 1, 8) = HttpsPrefix /\ UrlBody(SubSeq(s, 9, Len(s)))

\* the validator chain of processMessage
isValid(validationType, input) ==
  IF validationType = "email" THEN emailRegex(input)
  ELSE IF validationType = "phonenumber" THEN phoneRegex(input)
  ELSE IF validationType = "url" THEN urlRegex(input)
  ELSE TRUE

(***************************** flow graphs *********************************)
\* a node of fileTree.nodes: {id, type, data: {properties}}; a property the
\* node does not carry is None (strings), <<>> (texts, lists) or 0
\* (numberOfRepeats: `numberOfRepeats || "3"` takes 0 and a missing value
\* alike). url is the URL template cut at its {{...}} placeholders. buttons
\* holds the entries of properties.buttons that are strings, smart the
\* entries that are objects {id, title, action}, which follow the strings.
Node(id, type) ==
  [id |-> id, type |-> type,
   message |-> None, question |-> None, quickReply |-> None,
   buttons |-> <<>>, keywords |-> <<>>,
   validationType |-> None, numberOfRepeats |-> 0, propertyName |-> None,
   waitForUserReply |-> FALSE,
   method |-> None, url |-> <<>>,
   smart |-> <<>>]

\* an object entry of properties.buttons; action None: no action payload
Button(id, title, action) == [id |-> id, title |-> title, action |-> action]

\* the pieces of a URL template: literal text and {{variableName}}
Lit(t) == [kind |-> "lit", v |-> t]
Var(n) == [kind |-> "var", v |-> n]

\* an edge of fileTree.edges; label <<>> is an edge without a label
Edge(s, t, l) == [source |-> s, target |-> t, label |-> l]

NoNode == Node(None, None)

T_hi   == <<"h","i">>
T_yes  == <<"Y","e","s">>
T_no   == <<"N","o">>
T_bad  == <<"n","o","t","-","a","n","-","e","m","a","i","l">>
T_mail == <<"a","@","b",".","c","o","m">>
L_yes  == <<"y","e","s">>
L_no   == <<"n","o">>
L_true == <<"t","r","u","e">>
L_false == <<"f","a","l","s","e">>

\* the inbound texts (message.text.body, or the title of a pressed button)
Texts == {T_hi, T_yes, T_no, T_bad, T_mail}

\* start -> message("Welcome") -> question(email)
GraphWelcome ==
  [nodes |-> << Node("s", "start"),
                [Node("m", "message") EXCEPT !.message = "Welcome"],
                [Node("q", "question") EXCEPT !.question = "Your email?",
                   !.validationType = "email", !.propertyName = "email"] >>,
   edges |-> << Edge("s", "m", <<>>), Edge("m", "q", <<>>) >>]

\* the same flow with an end node after the question
GraphWelcomeEnd ==
  [nodes |-> GraphWelcome.nodes \o << Node("e", "end") >>,
   edges |-> GraphWelcome.edges \o << Edge("q", "e", <<>>) >>]

\* start -> buttons(Yes, No); Yes -> question -> end; No has no edge
GraphButtons ==
  [nodes |-> << Node("s", "start"),
                [Node("b", "buttons") EXCEPT !.message = "Continue?",
                   !.buttons = << T_yes, T_no >>, !.waitForUserReply = TRUE],
                [Node("q", "question") EXCEPT !.question = "Your name?",
                   !.propertyName = "name"],
                Node("e", "end") >>,
   edges |-> << Edge("s", "b", <<>>), Edge("b", "q", L_yes),
                Edge("q", "e", <<>>) >>]

\* start -> buttons(Yes); Yes -> question, which has no outgoing edge
GraphLeaf ==
  [nodes |-> << Node("s", "start"),
                [Node("b", "buttons") EXCEPT !.buttons = << T_yes >>],
                [Node("q", "question") EXCEPT !.validationType = "email",
                   !.propertyName = "email"] >>,
   edges |-> << Edge("s", "b", <<>>), Edge("b", "q", L_yes) >>]

\* two questions with different numberOfRepeats, the second one reachable
\* from the first through a button of a buttons node, whose other button
\* leads to the end node
GraphTwoQuestions ==
  [nodes |-> << Node("s", "start"),
                [Node("q", "question") EXCEPT !.validationType = "email",
                   !.numberOfRepeats = 4, !.propertyName = "email"],
                [Node("b", "buttons") EXCEPT !.buttons = << T_yes, T_no >>],
                [Node("q2", "question") EXCEPT !.validationType = "email",
                   !.numberOfRepeats = 2, !.propertyName = "name"],
                Node("e", "end") >>,
   edges |-> << Edge("s", "q", <<>>), Edge("q", "b", <<>>),
                Edge("b", "q2", L_yes), Edge("b", "e", L_no),
                Edge("q2", "e", <<>>) >>]

\* two message nodes pointing at each other, neither waits for a reply
GraphCycle ==
  [nodes |-> << Node("s", "start"),
                [Node("m", "message") EXCEPT !.message = "ping"],
                [Node("m2", "message") EXCEPT !.message = "pong"] >>,
   edges |-> << Edge("s", "m", <<>>), Edge("m", "m2", <<>>),
                Edge("m2", "m", <<>>) >>]

\* waitForUserReply, keywordMatch, api, an unsupported type and an edge to a
\* node that does not exist
GraphMisc ==
  [nodes |-> << [Node("s", "start") EXCEPT !.waitForUserReply = TRUE],
                [Node("k", "keywordMatch") EXCEPT
                   !.keywords = <<"y","e","s",",","h","i">>],
                [Node("a", "api") EXCEPT !.method = "GET",
                   !.url = << Lit("https://x/"), Var("email") >>,
                   !.quickReply = "One moment"],
                Node("x", "media"),
                [Node("m", "message") EXCEPT !.message = "Bye"] >>,
   edges |-> << Edge("s", "k", <<>>), Edge("k", "a", L_true),
                Edge("k", "x", L_false), Edge("a", "m", <<>>),
                Edge("m", "gone", <<>>) >>]

\* a question whose answer an api node reads in a later event: the message
\* between them waits for a reply
GraphAsk ==
  [nodes |-> << Node("s", "start"),
                [Node("q", "question") EXCEPT !.question = "Your email?",
                   !.validationType = "email", !.propertyName = "email"],
                [Node("w", "message") EXCEPT !.message = "Thanks",
                   !.waitForUserReply = TRUE],
                [Node("a", "api") EXCEPT !.method = "GET",
                   !.url = << Lit("https://x/"), Var("email") >>],
                Node("e", "end") >>,
   edges |-> << Edge("s", "q", <<>>), Edge("q", "w", <<>>),
                Edge("w", "a", <<>>), Edge("a", "e", <<>>) >>]

\* every node waits for a reply: start, keywordMatch, api and message
GraphWait ==
  [nodes |-> << [Node("s", "start") EXCEPT !.waitForUserReply = TRUE],
                [Node("k", "keywordMatch") EXCEPT !.keywords = <<"h","i">>,
                   !.waitForUserReply = TRUE],
                [Node("a", "api") EXCEPT !.method = "GET",
                   !.url = << Lit("https://x/") >>,
                   !.waitForUserReply = TRUE],
                [Node("m", "message") EXCEPT !.message = "Done",
                   !.waitForUserReply = TRUE],
                Node("e", "end") >>,
   edges |-> << Edge("s", "k", <<>>), Edge("k", "a", L_true),
                Edge("k", "e", L_false), Edge("a", "m", <<>>),
                Edge("m", "e", <<>>) >>]

Graphs == {GraphWelcome, GraphWelcomeEnd, GraphButtons, GraphLeaf,
           GraphTwoQuestions, GraphCycle, GraphMisc, GraphAsk, GraphWait}

\* the names of the variable bindings the graphs write or read
VarNames == {"email", "name"}

\* fileTree.nodes.find((n) => n.id === nodeId)
FindNode(g, nodeId) ==
  IF \E i \in 1..Len(g.nodes) : g.nodes[i].id = nodeId
    THEN g.nodes[CHOOSE i \in 1..Len(g.nodes) :
           /\ g.nodes[i].id = nodeId
           /\ \A j \in 1..(i-1) : g.nodes[j].id # nodeId]
    ELSE NoNode

\* fileTree.nodes.find((n) => n.type === type)
FindType(g, type) ==
  IF \E i \in 1..Len(g.nodes) : g.nodes[i].type = type
    THEN g.nodes[CHOOSE i \in 1..Len(g.nodes) :
           /\ g.nodes[i].type = type
           /\ \A j \in 1..(i-1) : g.nodes[j].type # type]
    ELSE NoNode

\* findNextNode(sourceNodeId, edges, conditionLabel): the target of the first
\* edge from the source (with that label when a non-empty label is given),
\* None when there is none
findNextNode(sourceNodeId, edges, conditionLabel) ==
  LET fits(e) == /\ e.source = sourceNodeId
                 /\ (conditionLabel # <<>> => e.label = conditionLabel)
  IN IF \E i \in 1..Len(edges) : fits(edges[i])
       THEN edges[CHOOSE i \in 1..Len(edges) :
              fits(edges[i]) /\ \A j \in 1..(i-1) : ~fits(edges[j])].target
       ELSE None

\* buttons.find((btn, index) => normalizedInput === normalizeLabel(btn) ||
\*                              normalizedInput === idMatch): the 1-based
\* position of the first matching button, 0 when none matches or when the
\* button found is the empty string (`if (matchedLabel)` is then false)
MatchButton(buttons, normalizedInput) ==
  LET hit(i) == \/ normalizedInput = normalizeLabel(buttons[i])
                \/ normalizedInput = ButtonId(i, buttons[i])
      first == CHOOSE i \in 1..Len(buttons) :
                 hit(i) /\ \A j \in 1..(i-1) : ~hit(j)
  IN IF \E i \in 1..Len(buttons) : hit(i)
       THEN IF buttons[first] = <<>> THEN 0 ELSE first
       ELSE 0

(***************************** state store *********************************)
\* the Redis keys of the session: `flow-state:<user>:<project>` (position),
\* ...:awaitingButtonResponse, ...:buttonInvalidCount, ...:asked, ...:retries,
\* and `<project>_<user>_<name>` for every variable name
SessionKeys == {"position", "awaiting", "invalidCount", "asked", "retries"}
Keys == SessionKeys \cup VarNames

NoAwait == [nodeId |-> None, buttons |-> <<>>]

\* what a key holds when it does not exist (the counters never store 0, a
\* variable is <<>> when missing and <<value>> when bound)
Absent(k) ==
  CASE k = "position" -> None
    [] k = "awaiting" -> NoAwait
    [] k = "invalidCount" -> 0
    [] k = "asked" -> FALSE
    [] k = "retries" -> 0
    [] OTHER -> <<>>

Remove(seq, k) == SelectSeq(seq, LAMBDA x : x # k)

\* redisClient.set(key, value, "EX", 3600): every key gets the same time to
\* live, so the keys expire in the order in which they were last set; ttl
\* lists the existing keys in that order, oldest first
Set(r, k, v) ==
  [kv |-> [r.kv EXCEPT ![k] = v], ttl |-> Remove(r.ttl, k) \o <<k>>]

\* redisClient.del(key)
Del(r, k) ==
  [kv |-> [r.kv EXCEPT ![k] = Absent(k)], ttl |-> Remove(r.ttl, k)]

\* redisClient.get(key)
Get(r, k) == r.kv[k]

EmptyStore == [kv |-> [k \in Keys |-> Absent(k)], ttl |-> <<>>]

(***************************** state ***************************************)
VARIABLES
  graph,    \* project.fileTree, fixed for the run
  redis,    \* the session keys and variable bindings, with their expiry order
  pc,       \* "idle": no event in progress; "exec": executeNode(cur) is due
  cur,      \* the node id the pending executeNode call was given
  sent,     \* the messages handed to the gateway during the current event
  ev,       \* what the current (or last) event did, see NoEvent
  visited,  \* question nodes whose prompt was sent in the current session
  stuck,    \* consecutive replies that left a blocked session at its node
  script,   \* how far the run has followed Script from a fresh session
  handlers  \* the executions of processMessage in flight when two events
            \* are handled at once, see NoHandlers

vars == <<graph, redis, pc, cur, sent, ev, visited, stuck, script, handlers>>

position     == Get(redis, "position")
awaiting     == Get(redis, "awaiting")
invalidCount == Get(redis, "invalidCount")
asked        == Get(redis, "asked")
retries      == Get(redis, "retries")

\* Msg that sends plain text whether or not buttons are given
Msg_AlwaysText(body, buttons) ==
  [kind |-> "text", body |-> body, buttons |-> <<>>]

\* one call of sendWhatsappMessage: an interactive message when buttons are
\* given (the first three), a text message otherwise
Msg(body, buttons) ==
  [kind |-> IF Len(buttons) > 0 THEN "buttons" ELSE "text",
   body |-> body,
   buttons |-> IF Len(buttons) > 3 THEN SubSeq(buttons, 1, 3) ELSE buttons]

Log(log, out) ==
  IF Len(log \o out) > MaxSent THEN SubSeq(log \o out, 1, MaxSent)
  ELSE log \o out

Min(a, b) == IF a < b THEN a ELSE b

\* the record of an event: its text, the branch processMessage took, the
\* first node executeNode ran and how many it ran, whether an end node ran,
\* whether a gateway send threw, whether the position key was deleted, the
\* question node executeNode reached (with: was it already prompted in this
\* session, was its prompt sent now), and the session before the event: its
\* position, whether awaiting and asked were set, its two counters, and the
\* retry limit of the blocking node (0: the session was not blocked); and,
\* kept from event to event, the question node whose answers failed their
\* validation last and how many of them failed in a row, and the answer a
\* question node stored for each variable name (<<>>: none, or expired);
\* what the api node of the event did and the fault it ran into, as in
\* Outcome; the session key whose read failed in processMessage, kept until
\* the first executeNode of the event; the id and the title of the pressed
\* button when the event is a button reply
NoEvent ==
  [text |-> <<>>, route |-> "none", first |-> None, steps |-> 0,
   endRun |-> FALSE, aborted |-> FALSE, deleted |-> FALSE,
   arrivedQ |-> None, revisit |-> FALSE, prompted |-> FALSE,
   prePos |-> None, preAwaiting |-> FALSE, preAsked |-> FALSE,
   preInvalid |-> 0, preRetries |-> 0, preLimit |-> 0,
   failsQ |-> None, failsN |-> 0,
   apiRan |-> FALSE, apiRead |-> <<>>, apiMissing |-> FALSE,
   apiCalled |-> FALSE, fault |-> "none", unreadable |-> None,
   reply |-> <<>>,
   wrote |-> [n \in VarNames |-> <<>>]]

\* the end-to-end conversation: "hi", "not-an-email", "a@b.com"
Script == << T_hi, T_bad, T_mail >>
OffScript == Len(Script) + 1

\* parseInt(numberOfRepeats || "3", 10)
NumberOfRepeats(node) ==
  IF node.numberOfRepeats = 0 THEN 3 ELSE node.numberOfRepeats

\* the maximum of invalid button replies (processMessage: invalidCount >= 3)
MaxInvalid == 3

\* the number of non-advancing replies after which a session blocked at the
\* node of the stored position must have ended, 0 when it is not blocked
BlockLimit(g, r) ==
  LET node == FindNode(g, Get(r, "position"))
  IN IF Get(r, "awaiting") # NoAwait /\ Get(r, "awaiting").nodeId = node.id
       THEN MaxInvalid
     ELSE IF node.type = "question" /\ Get(r, "asked")
       THEN NumberOfRepeats(node)
     ELSE 0

(***************************** processMessage ******************************)
\* what a handler step returns: the store after its writes, the messages it
\* sent, the node to run next with executeNode (None: the handler returns)
\* and the flags of the event record it sets (for an api node: that it ran,
\* the values it read for the placeholders of its URL, whether one was
\* missing, whether the request was made; fault: the node to run was not
\* found, or has an unsupported type)
Outcome(r, out, next, route) ==
  [r |-> r, out |-> out, next |-> next, route |-> route,
   aborted |-> FALSE, deleted |-> FALSE, endRun |-> FALSE,
   arrivedQ |-> None, revisit |-> FALSE, prompted |-> FALSE,
   apiRan |-> FALSE, apiRead |-> <<>>, apiMissing |-> FALSE,
   apiCalled |-> FALSE, fault |-> "none"]

\* a gateway send threw: sendWhatsappMessage rethrows, nothing in the
\* executor catches it, the handler stops with the writes made so far
Thrown(r, out, route) == [Outcome(r, out, None, route) EXCEPT !.aborted = TRUE]

\* the global button check: the target of the first buttons node (in node
\* order) whose first button matching the input has an edge with its label
GlobalTarget(g, normalizedInput) ==
  LET target(i) ==
        LET node == g.nodes[i]
            m == IF node.type = "buttons"
                   THEN MatchButton(node.buttons, normalizedInput) ELSE 0
        IN IF m = 0 THEN None
           ELSE findNextNode(node.id, g.edges, normalizeLabel(node.buttons[m]))
  IN IF \E i \in 1..Len(g.nodes) : target(i) # None
       THEN target(CHOOSE i \in 1..Len(g.nodes) :
              target(i) # None /\ \A j \in 1..(i-1) : target(j) = None)
       ELSE None

\* the global button check throws a TypeError: normalizeLabel calls
\* label.trim() on an object entry of a buttons node that the scan reaches,
\* i.e. no earlier node made the scan return and no string entry of the node
\* matches the input
ScanThrows(g, normalizedInput) ==
  LET target(i) ==
        LET node == g.nodes[i]
            m == IF node.type = "buttons"
                   THEN MatchButton(node.buttons, normalizedInput) ELSE 0
        IN IF m = 0 THEN None
           ELSE findNextNode(node.id, g.edges, normalizeLabel(node.buttons[m]))
      hit(i) == \E k \in 1..Len(g.nodes[i].buttons) :
                  \/ normalizedInput = normalizeLabel(g.nodes[i].buttons[k])
                  \/ normalizedInput = ButtonId(k, g.nodes[i].buttons[k])
  IN \E i \in 1..Len(g.nodes) :
       /\ g.nodes[i].type = "buttons"
       /\ g.nodes[i].smart # <<>>
       /\ ~hit(i)
       /\ \A j \in 1..(i-1) : target(j) = None

\* CurrentNodeId with the start-node lookup picking the wrong node
CurrentNodeId_LastNode(g, r) ==
  IF Get(r, "position") # None THEN Get(r, "position")
  ELSE g.nodes[Len(g.nodes)].id

\* the node processMessage continues from: the stored position, else the
\* first start node (None when the graph has none)
CurrentNodeId(g, r) ==
  IF Get(r, "position") # None THEN Get(r, "position")
  ELSE FindType(g, "start").id

\* Jump without the deletion of awaitingButtonResponse
Jump_KeepsAwaiting(r, nextNodeId) ==
  Del(Set(r, "position", nextNodeId), "invalidCount")

\* the jump of a matched button: position set, awaiting and the invalid
\* counter deleted
Jump(r, nextNodeId) ==
  Del(Del(Set(r, "position", nextNodeId), "awaiting"), "invalidCount")

\* InvalidReply whose retry prompt gives up the awaited buttons node
InvalidReply_DropsAwaiting(g, r, ok) ==
  LET n == Get(r, "invalidCount") + 1
      endNode == FindType(g, "end")
  IN IF n >= MaxInvalid
       THEN IF ~ok THEN Thrown(r, <<>>, "awaitTerminate")
            ELSE [Outcome(Del(Del(Del(r, "position"), "awaiting"), "invalidCount"),
                          << Msg("too many invalid responses", <<>>) >>,
                          endNode.id, "awaitTerminate")
                    EXCEPT !.deleted = TRUE]
       ELSE IF ~ok THEN Thrown(Set(r, "invalidCount", n), <<>>, "awaitInvalid")
            ELSE Outcome(Del(Set(r, "invalidCount", n), "awaiting"),
                         << Msg("invalid response, attempts used", <<>>) >>,
                         None, "awaitInvalid")

\* the invalid reply to an awaited buttons node
InvalidReply(g, r, ok) ==
  LET n == Get(r, "invalidCount") + 1
      endNode == FindType(g, "end")
  IN IF n >= MaxInvalid
       THEN IF ~ok THEN Thrown(r, <<>>, "awaitTerminate")
            ELSE [Outcome(Del(Del(Del(r, "position"), "awaiting"), "invalidCount"),
                          << Msg("too many invalid responses", <<>>) >>,
                          endNode.id, "awaitTerminate")
                    EXCEPT !.deleted = TRUE]
       ELSE IF ~ok THEN Thrown(Set(r, "invalidCount", n), <<>>, "awaitInvalid")
            ELSE Outcome(Set(r, "invalidCount", n),
                         << Msg("invalid response, attempts used", <<>>) >>,
                         None, "awaitInvalid")

\* the answer to the question node the session is at (asked is set)
Answer(g, r, node, text, ok) ==
  LET retryCount == Get(r, "retries")
      input == trim(text)
      nextNodeId == findNextNode(node.id, g.edges, <<>>)
      stored == IF node.propertyName # None
                  THEN Set(r, node.propertyName, <<input>>) ELSE r
  IN IF ~isValid(node.validationType, input)
       THEN IF retryCount + 1 >= NumberOfRepeats(node)
              THEN IF ~ok THEN Thrown(r, <<>>, "answerTerminate")
                   ELSE [Outcome(Del(Del(Del(r, "position"), "asked"), "retries"),
                                 << Msg("too many invalid attempts", <<>>) >>,
                                 None, "answerTerminate")
                           EXCEPT !.deleted = TRUE]
              ELSE IF ~ok
                THEN Thrown(Set(r, "retries", retryCount + 1), <<>>, "answerInvalid")
                ELSE Outcome(Set(r, "retries", retryCount + 1),
                             << Msg("please provide a valid answer", <<>>) >>,
                             None, "answerInvalid")
       ELSE IF nextNodeId # None
              THEN Outcome(Del(Del(Set(stored, "position", nextNodeId),
                                   "asked"), "retries"),
                           <<>>, nextNodeId, "answerValid")
              ELSE [Outcome(Del(stored, "position"), <<>>, None, "answerValid")
                      EXCEPT !.deleted = TRUE]

\* Continue without the asked branch: a pending question is run again
\* instead of being answered
Continue_NoAnswer(g, r, text, ok) ==
  LET currentNodeId == CurrentNodeId(g, r)
      currentNode == FindNode(g, currentNodeId)
  IN IF currentNodeId = None THEN Outcome(r, <<>>, None, "noStart")
     ELSE IF currentNode = NoNode
       THEN [Outcome(Del(r, "position"), <<>>, None, "noNode")
               EXCEPT !.deleted = TRUE]
     ELSE Outcome(r, <<>>, currentNodeId, "continue")

\* step 3 of processMessage: continue from the stored position or start
Continue(g, r, text, ok) ==
  LET currentNodeId == CurrentNodeId(g, r)
      currentNode == FindNode(g, currentNodeId)
  IN IF currentNodeId = None THEN Outcome(r, <<>>, None, "noStart")
     ELSE IF currentNode = NoNode
       THEN [Outcome(Del(r, "position"), <<>>, None, "noNode")
               EXCEPT !.deleted = TRUE, !.fault = "notFound"]
     ELSE IF currentNode.type = "question" /\ Get(r, "asked")
       THEN Answer(g, r, currentNode, text, ok)
     ELSE Outcome(r, <<>>, currentNodeId, "continue")

\* Classify with the global button check ahead of the awaited buttons
Classify_GlobalFirst(g, r, text, ok) ==
  LET normalizedInput == normalizeLabel(toLowerCase(trim(text)))
      aw == Get(r, "awaiting")
      m == MatchButton(aw.buttons, normalizedInput)
      globalNext == GlobalTarget(g, normalizedInput)
  IN IF globalNext # None
       THEN Outcome(Jump(r, globalNext), <<>>, globalNext, "global")
     ELSE IF aw # NoAwait /\ m = 0
       THEN InvalidReply(g, r, ok)
     ELSE Continue(g, r, text, ok)

\* processMessage up to its call of executeNode; ok: the one gateway send
\* this part makes (if it makes one) succeeds
Classify(g, r, text, ok) ==
  LET cleanedInput == toLowerCase(trim(text))
      normalizedInput == normalizeLabel(cleanedInput)
      aw == Get(r, "awaiting")
      m == MatchButton(aw.buttons, normalizedInput)
      awaitNext == IF m = 0 THEN None
                   ELSE findNextNode(aw.nodeId, g.edges, normalizeLabel(aw.buttons[m]))
      globalNext == GlobalTarget(g, normalizedInput)
  IN IF aw # NoAwait /\ m > 0 /\ awaitNext # None
       THEN Outcome(Jump(r, awaitNext), <<>>, awaitNext, "awaitMatch")
     ELSE IF aw # NoAwait /\ m = 0
       THEN InvalidReply(g, r, ok)
     ELSE IF ScanThrows(g, normalizedInput)
       THEN Thrown(r, <<>>, "typeError")
     ELSE IF globalNext # None
       THEN Outcome(Jump(r, globalNext), <<>>, globalNext, "global")
     ELSE Continue(g, r, text, ok)

(***************************** executeNode *********************************)
\* String.prototype.split(","): the pieces between the commas (one more
\* piece than commas, so "" splits into one empty piece)
Split(s) ==
  LET commas == SelectSeq([i \in 1..Len(s) |-> i], LAMBDA i : s[i] = ",")
      cuts == << 0 >> \o commas \o << Len(s) + 1 >>
  IN [k \in 1..(Len(commas) + 1) |-> SubSeq(s, cuts[k] + 1, cuts[k+1] - 1)]

\* keywords.split(",").map((k) => k.trim().toLowerCase())
Keywords(node) ==
  LET parts == Split(node.keywords)
  IN [i \in 1..Len(parts) |-> toLowerCase(trim(parts[i]))]

\* keywords.some((k) => context.messageText.toLowerCase().includes(k))
KeywordMatches(node, text) ==
  \E keywords \in { Keywords(node) }, lower \in { toLowerCase(text) } :
    \E i \in 1..Len(keywords) : includes(lower, keywords[i])

\* the outcomes of the axios call of the api node: the executor never
\* imports axios, so the call throws a ReferenceError inside the try block
AxiosOutcomes == {FALSE}

\* UrlCompiles that never notices a missing binding
UrlCompiles_Always(r, url) == \A i \in 1..Len(url) : url[i].kind \in {"lit", "var"}

\* every {{variableName}} of the URL has a binding (a missing or empty
\* value throws inside the try block)
UrlCompiles(r, url) ==
  \A i \in 1..Len(url) :
    url[i].kind = "var" => Get(r, url[i].v) \notin { <<>>, << <<>> >> }

\* UrlReads looking the variables up under a key the question did not write
UrlReads_OtherKey(r, url) ==
  LET holes == SelectSeq(url, LAMBDA piece : piece.kind = "var")
  IN [i \in 1..Len(holes) |->
        Get(r, CHOOSE n \in VarNames : n # holes[i].v)]

\* redisClient.get of the variable of every {{variableName}} of the URL, in
\* the order of the placeholders
UrlReads(r, url) ==
  LET holes == SelectSeq(url, LAMBDA piece : piece.kind = "var")
  IN [i \in 1..Len(holes) |-> Get(r, holes[i].v)]

\* Advance that ignores waitForUserReply
Advance_NoWait(r, out, node, nextNodeId) ==
  IF nextNodeId # None
    THEN Outcome(Set(r, "position", nextNodeId), out, nextNodeId, "exec")
    ELSE [Outcome(Del(r, "position"), out, None, "exec") EXCEPT !.deleted = TRUE]

\* the end of executeNode: persist the next position and recurse unless the
\* node waits for a reply; without a next node the flow ends
Advance(r, out, node, nextNodeId) ==
  IF nextNodeId # None
    THEN Outcome(Set(r, "position", nextNodeId), out,
                 IF node.waitForUserReply THEN None ELSE nextNodeId, "exec")
    ELSE [Outcome(Del(r, "position"), out, None, "exec") EXCEPT !.deleted = TRUE]

\* the switch of executeNode for a node that exists; out: what the
\* quickReply already sent; ok: the node's own gateway send succeeds
Dispatch(g, r, node, text, out, ok, apiOk, seen) ==
  CASE node.type = "start" ->
         Advance(r, out, node, findNextNode(node.id, g.edges, <<>>))
    [] node.type = "message" ->
         IF ~ok THEN Thrown(r, out, "exec")
         ELSE Advance(r,
                out \o << Msg(IF node.message = None THEN "Default message"
                              ELSE node.message, <<>>) >>,
                node, findNextNode(node.id, g.edges, <<>>))
    [] node.type = "keywordMatch" ->
         Advance(r, out, node,
                 findNextNode(node.id, g.edges,
                              IF KeywordMatches(node, text) THEN L_true ELSE L_false))
    [] node.type = "buttons" ->
         IF ~ok \/ node.smart # <<>> THEN Thrown(r, out, "exec")
         ELSE Outcome(
                Del(Set(r, "awaiting",
                        [nodeId |-> node.id,
                         buttons |-> [i \in 1..Len(node.buttons) |->
                                        toLowerCase(trim(node.buttons[i]))]]),
                    "invalidCount"),
                out \o << Msg(IF node.message = None THEN "Choose an option:"
                              ELSE node.message, node.buttons) >>,
                None, "exec")
    [] node.type = "question" ->
         IF Get(r, "asked")
           THEN [Outcome(r, out, None, "exec") EXCEPT
                   !.arrivedQ = node.id, !.revisit = node.id \in seen]
         ELSE IF ~ok
           THEN [Thrown(r, out, "exec") EXCEPT
                   !.arrivedQ = node.id, !.revisit = node.id \in seen]
         ELSE [Outcome(Set(r, "asked", TRUE),
                       out \o << Msg(IF node.question = None THEN "Please reply:"
                                     ELSE node.question, <<>>) >>,
                       None, "exec") EXCEPT
                 !.arrivedQ = node.id, !.revisit = node.id \in seen,
                 !.prompted = TRUE]
    [] node.type = "api" ->
         IF node.method = None \/ node.url = <<>>
           THEN [Advance(r, out, node, None) EXCEPT !.apiRan = TRUE]
         ELSE [(IF UrlCompiles(r, node.url) /\ apiOk /\ ok
                  THEN Advance(r, out \o << Msg("API Response", <<>>) >>, node,
                               findNextNode(node.id, g.edges, <<>>))
                ELSE IF ~ok THEN Thrown(r, out, "exec")
                ELSE Advance(r, out \o << Msg("Failed to fetch data", <<>>) >>,
                             node, findNextNode(node.id, g.edges, <<>>)))
               EXCEPT !.apiRan = TRUE,
                      !.apiRead = UrlReads(r, node.url),
                      !.apiMissing = ~UrlCompiles(r, node.url),
                      !.apiCalled = UrlCompiles(r, node.url)]
    [] node.type = "end" ->
         [Outcome(Del(r, "position"), out, None, "exec") EXCEPT
            !.deleted = TRUE, !.endRun = TRUE]
    [] OTHER ->
         IF ~ok THEN Thrown(r, out, "exec")
         ELSE [Outcome(Del(r, "position"),
                       out \o << Msg("Something went wrong", <<>>) >>,
                       None, "exec") EXCEPT !.deleted = TRUE,
                                            !.fault = "unsupported"]

\* executeNode with the asked flag of a question written before its prompt
\* is sent
Execute_MarkerFirst(g, r, nodeId, text, okQuick, ok, apiOk, seen) ==
  LET node == FindNode(g, nodeId)
      out == IF node.quickReply # None
               THEN << Msg(node.quickReply, <<>>) >> ELSE <<>>
  IN IF node = NoNode
       THEN [Outcome(Del(r, "position"), <<>>, None, "exec") EXCEPT
               !.deleted = TRUE, !.fault = "notFound"]
     ELSE IF node.quickReply # None /\ ~okQuick
       THEN Thrown(r, <<>>, "exec")
     ELSE IF node.type = "question" /\ ~Get(r, "asked") /\ ~ok
       THEN [Thrown(Set(r, "asked", TRUE), out, "exec") EXCEPT
               !.arrivedQ = node.id, !.revisit = node.id \in seen]
     ELSE Dispatch(g, r, node, text, out, ok, apiOk, seen)

\* executeNode(nodeId, context) for one node; okQuick: the quickReply send
\* succeeds; ok: the node's own send succeeds
Execute(g, r, nodeId, text, okQuick, ok, apiOk, seen) ==
  LET node == FindNode(g, nodeId)
  IN IF node = NoNode
       THEN [Outcome(Del(r, "position"), <<>>, None, "exec") EXCEPT
               !.deleted = TRUE, !.fault = "notFound"]
     ELSE IF node.quickReply # None /\ ~okQuick
       THEN Thrown(r, <<>>, "exec")
     ELSE Dispatch(g, r, node, text,
                   IF node.quickReply # None
                     THEN << Msg(node.quickReply, <<>>) >> ELSE <<>>,
                   ok, apiOk, seen)

(***************************** concurrent handlers *************************)
\* webhook requests are served as independent async calls: two executions of
\* processMessage for one session interleave at their awaits
Handlers == {1, 2}

\* an execution of processMessage: where it is, its messageText, its local
\* invalidCount (0 before line 90), the branch it took, the node its
\* executeNode call is given, and how many nodes it has executed
IdleHandler ==
  [pc |-> "done", text |-> <<>>, n |-> 0, route |-> "none", cur |-> None,
   ran |-> 0]

\* the executions, the store when their events arrived, whether two events
\* arrived together, and the execution that took the latest step
NoHandlers ==
  [h |-> [i \in Handlers |-> IdleHandler], base |-> EmptyStore,
   both |-> FALSE, last |-> 0]

(***************************** actions *************************************)
Init ==
  /\ graph \in Graphs
  /\ redis = EmptyStore
  /\ pc = "idle"
  /\ cur = None
  /\ sent = <<>>
  /\ ev = NoEvent
  /\ visited = {}
  /\ stuck = 0
  /\ script = 0
  /\ handlers = NoHandlers

\* the bookkeeping shared by the two handler steps: o is the step's outcome,
\* e the event record after the step, log the messages sent before it in
\* this event, sc the place in Script after it
Step(o, e, log, sc) ==
  /\ redis' = o.r
  /\ sent' = Log(log, o.out)
  /\ pc' = IF o.next # None THEN "exec" ELSE "idle"
  /\ cur' = o.next
  /\ ev' = e
  /\ script' = sc
  /\ visited' = IF Get(o.r, "position") = None THEN {}
               ELSE IF o.prompted THEN visited \cup {o.arrivedQ}
               ELSE visited
  /\ stuck' = IF o.next # None THEN stuck
              ELSE IF /\ e.preLimit > 0
                      /\ ~e.aborted
                      /\ Get(o.r, "position") = e.prePos
                THEN Min(stuck + 1, MaxStuck)
              ELSE 0
  /\ UNCHANGED <<graph, handlers>>

\* the question whose answers failed last, and how many failed in a row,
\* after an event with outcome o handled at node nodeId: a failed validation
\* that is counted in retries counts, a stored answer and the end of the
\* session start afresh, any other event leaves the count alone
FailsQ(o, nodeId) ==
  IF o.route = "answerInvalid" THEN nodeId
  ELSE IF o.route \in {"answerValid", "answerTerminate"} /\ ~o.aborted THEN None
  ELSE ev.failsQ

FailsN(o, nodeId) ==
  IF o.route = "answerInvalid"
    THEN IF ev.failsQ = nodeId THEN ev.failsN + 1 ELSE 1
  ELSE IF o.route \in {"answerValid", "answerTerminate"} /\ ~o.aborted THEN 0
  ELSE ev.failsN

\* the answers stored so far, after an event with outcome o handled at node
Wrote(o, node, text) ==
  IF o.route = "answerValid" /\ node.propertyName # None
    THEN [ev.wrote EXCEPT ![node.propertyName] = << trim(text) >>]
  ELSE ev.wrote

\* an inbound event reaches processMessage (handleIncomingMessage passes the
\* text, or the title of a pressed button); events are handled one at a time
ProcessMessage(text, ok) ==
  /\ pc = "idle"
  /\ \E o \in { Classify(graph, redis, text, ok) } :
        Step(o,
             [NoEvent EXCEPT !.text = text, !.route = o.route,
                !.aborted = o.aborted, !.deleted = o.deleted,
                !.fault = o.fault,
                !.prePos = position, !.preAwaiting = (awaiting # NoAwait),
                !.preAsked = asked, !.preInvalid = invalidCount,
                !.preRetries = retries, !.preLimit = BlockLimit(graph, redis),
                !.failsQ = FailsQ(o, CurrentNodeId(graph, redis)),
                !.failsN = FailsN(o, CurrentNodeId(graph, redis)),
                !.wrote = Wrote(o, FindNode(graph, CurrentNodeId(graph, redis)),
                                text)],
             <<>>,
             IF script < Len(Script) /\ text = Script[script + 1] /\ ~o.aborted
               THEN script + 1 ELSE OffScript)

\* one call of executeNode, made by processMessage or by the executeNode
\* call before it
ExecuteNode(okQuick, ok, apiOk) ==
  /\ pc = "exec"
  /\ \E o \in { Execute(graph, redis, cur, ev.text, okQuick, ok, apiOk, visited) },
        ran \in { FindNode(graph, cur) # NoNode } :
        Step(o,
             [ev EXCEPT
                !.first = IF @ = None /\ ran THEN cur ELSE @,
                !.steps = IF ran THEN Min(@ + 1, MaxSteps) ELSE @,
                !.endRun = @ \/ o.endRun,
                !.aborted = o.aborted,
                !.deleted = @ \/ o.deleted,
                !.arrivedQ = o.arrivedQ,
                !.revisit = o.revisit,
                !.prompted = o.prompted,
                !.fault = o.fault,
                !.unreadable = None,
                !.apiRan = @ \/ o.apiRan,
                !.apiRead = IF o.apiRan THEN o.apiRead ELSE @,
                !.apiMissing = IF o.apiRan THEN o.apiMissing ELSE @,
                !.apiCalled = IF o.apiRan THEN o.apiCalled ELSE @],
             sent,
             IF o.aborted THEN OffScript ELSE script)

ExecuteStep ==
  \E okQuick \in BOOLEAN, ok \in BOOLEAN, apiOk \in AxiosOutcomes :
    ExecuteNode(okQuick, ok, apiOk)

\* the oldest key reaches its time to live and disappears (between events)
Expire ==
  /\ pc = "idle"
  /\ redis.ttl # <<>>
  /\ redis' = Del(redis, Head(redis.ttl))
  /\ visited' = IF Head(redis.ttl) = "position" THEN {} ELSE visited
  /\ stuck' = 0
  /\ ev' = [NoEvent EXCEPT
              !.failsQ = IF Head(redis.ttl) = "retries" THEN None ELSE ev.failsQ,
              !.failsN = IF Head(redis.ttl) = "retries" THEN 0 ELSE ev.failsN,
              !.wrote = [n \in VarNames |->
                           IF n = Head(redis.ttl) THEN <<>> ELSE ev.wrote[n]]]
  /\ sent' = <<>>
  /\ script' = OffScript
  /\ UNCHANGED <<graph, pc, cur, handlers>>

Next ==
  \/ \E text \in Texts, ok \in BOOLEAN : ProcessMessage(text, ok)
  \/ ExecuteStep
  \/ Expire

Spec == Init /\ [][Next]_vars

\* a handler in progress keeps running: node dispatch within one execution
\* is sequential and nothing cancels it
FairSpec == Spec /\ WF_vars(ExecuteStep)

TypeOK ==
  /\ graph \in Graphs
  /\ pc \in {"idle", "exec"}
  /\ position = None \/ position \in STRING
  /\ invalidCount \in 0..MaxInvalid
  /\ asked \in BOOLEAN
  /\ Len(sent) <= MaxSent
  /\ stuck \in 0..MaxStuck

(***************************** properties **********************************)
StartId == FindType(graph, "start").id
PosNode == FindNode(graph, position)
PreNode == FindNode(graph, ev.prePos)
Handled == pc = "idle" /\ ev.route # "none"
NormalizedText == normalizeLabel(toLowerCase(trim(ev.text)))
AnswerRoutes == {"answerValid", "answerInvalid", "answerTerminate"}

\* C1: after an event has been fully handled, awaiting and questionPending
\* (asked) are never both set
C1_MarkersExclusive == pc = "idle" => ~(awaiting # NoAwait /\ asked)

\* C2: a session blocked on a buttons node or on a question never gets 3
\* (numberOfRepeats for a question) consecutive replies that all leave it at
\* that node: the last reply of such a run ends the session
C2_BoundedEscape ==
  (pc = "idle" /\ ev.preLimit > 0) => stuck < ev.preLimit

\* C3: handling one inbound event always terminates
C3_EventTerminates == (pc = "exec") ~> (pc = "idle")

\* C4 (as stated): for an event handled while no position is stored, the
\* first node executed is the start node, whatever the text
C4_AlwaysStartsAtStart ==
  (ev.route # "none" /\ ev.prePos = None /\ ev.first # None) =>
    ev.first = StartId

\* C4 (amended): for an event handled while no position is stored, awaiting
\* is absent and the text matches no button, of any buttons node, that has an
\* edge with its label, the start node is executed and is the first node
\* executed
C4_StartsAtStart ==
  (/\ Handled /\ ev.prePos = None /\ ~ev.preAwaiting
   /\ GlobalTarget(graph, NormalizedText) = None
   /\ StartId # None) =>
    ev.first = StartId

\* C4 witness: the position key was gone while asked and retries were still
\* there, and the next event has run the flow from its start node
C4_Witness ==
  /\ Handled /\ ev.prePos = None /\ ~ev.preAwaiting /\ ev.preAsked
  /\ GlobalTarget(graph, NormalizedText) = None
  /\ ev.first = StartId /\ ev.steps >= 2 /\ retries > 0 /\ ~ev.aborted

\* C5: after an event in which the session terminated, a button reply
\* matched or a question answer validated, both counters are absent
C5_CountersCleared ==
  (/\ pc = "idle"
   /\ \/ ev.deleted /\ position = None
      \/ ev.route \in {"awaitMatch", "global", "answerValid"}) =>
    invalidCount = 0 /\ retries = 0

\* C6: while the session has not terminated, invalidAttempts is at most 3
\* and retries is at most the numberOfRepeats of the question node the
\* session is waiting on
C6_CountersBounded ==
  (pc = "idle" /\ position # None) =>
    /\ invalidCount <= MaxInvalid
    /\ (PosNode.type = "question" /\ asked) => retries <= NumberOfRepeats(PosNode)

\* C7: on a fresh session with start -> message("Welcome") -> question(email),
\* "hi" sends the welcome message then the question prompt and sets
\* questionPending; "not-an-email" sends one re-prompt and leaves retries = 1;
\* "a@b.com" stores the binding and clears questionPending and retries
C7_EndToEnd ==
  (graph = GraphWelcome /\ pc = "idle") =>
    /\ script = 1 =>
         /\ sent = << Msg("Welcome", <<>>), Msg("Your email?", <<>>) >>
         /\ asked /\ position = "q"
    /\ script = 2 =>
         /\ sent = << Msg("please provide a valid answer", <<>>) >>
         /\ retries = 1 /\ asked /\ position = "q"
    /\ script = 3 =>
         /\ Get(redis, "email") = << T_mail >>
         /\ ~asked /\ retries = 0

\* C8: after an event in which an end node was executed, every session
\* field is absent
C8_EndDeletesAll ==
  (pc = "idle" /\ ev.endRun) =>
    /\ position = None /\ awaiting = NoAwait /\ invalidCount = 0
    /\ ~asked /\ retries = 0

\* C9 (as stated): when awaiting is absent and questionPending is set, any
\* inbound text is validated as the answer to the pending question
C9_PendingAlwaysValidated ==
  (Handled /\ ~ev.preAwaiting /\ ev.preAsked) => ev.route \in AnswerRoutes

\* C9 (amended): when awaiting is absent, questionPending is set, the stored
\* position is a question node and the text matches no button, of any buttons
\* node, that has an edge with its label, the text is validated as the answer
\* to that question: stored, or counted as a failed validation
C9_PendingValidated ==
  (/\ Handled /\ ~ev.preAwaiting /\ ev.preAsked
   /\ PreNode.type = "question"
   /\ GlobalTarget(graph, NormalizedText) = None) =>
    /\ ev.route \in AnswerRoutes
    /\ ev.route = "answerValid" =>
         (PreNode.propertyName # None =>
            Get(redis, PreNode.propertyName) = << trim(ev.text) >>)
    /\ (ev.route = "answerInvalid" /\ ~ev.aborted) =>
         retries > 0 /\ position = ev.prePos

\* C9 witness: a text sent while a question is pending failed its validation
C9_Witness ==
  /\ Handled /\ ~ev.preAwaiting /\ ev.preAsked /\ PreNode.type = "question"
  /\ GlobalTarget(graph, NormalizedText) = None
  /\ ev.route = "answerInvalid" /\ retries = 1 /\ ~ev.aborted

\* C10: when executeNode reaches a question node for the first time in the
\* session, the prompt is sent, questionPending is set and the event ends
C10_FirstVisitPrompts ==
  (ev.arrivedQ # None /\ ~ev.revisit /\ ~ev.aborted) =>
    ev.prompted /\ asked /\ pc = "idle"

\* the default edge of the question node the session was at before the event
PreNext == findNextNode(PreNode.id, graph.edges, <<>>)

\* processMessage has just taken its valid-answer branch: executeNode has not
\* run yet (the call of the next node is due, or there is no next node)
AnswerStored ==
  /\ ev.route = "answerValid" /\ ev.steps = 0
  /\ pc = "exec" <=> PreNext # None

\* C11: when the answer to a pending question passes its validation, the
\* answer is stored under the node's property name, questionPending and
\* retries are absent, and the flow advances along the question's default
\* edge, whether or not the question has an outgoing edge
C11_ValidAnswer ==
  AnswerStored =>
    /\ PreNode.propertyName # None =>
         Get(redis, PreNode.propertyName) = << trim(ev.text) >>
    /\ ~asked /\ retries = 0
    /\ PreNext # None => position = PreNext /\ cur = PreNext

\* the number of failed validations in a row of the question the session
\* is waiting on
Fails == IF ev.failsQ = position THEN ev.failsN ELSE 0

\* C12: a failed validation increments retries by exactly one; when retries
\* thereby reaches numberOfRepeats one terminal notice is sent and position,
\* questionPending and retries are absent, otherwise one re-prompt is sent
\* and position and questionPending stay; so retries always equals the
\* number of failed validations in a row of the current question
C12_InvalidAnswer ==
  /\ (Handled /\ ev.route = "answerInvalid" /\ ~ev.aborted) =>
       /\ retries = ev.preRetries + 1
       /\ retries < NumberOfRepeats(PreNode)
       /\ sent = << Msg("please provide a valid answer", <<>>) >>
       /\ position = ev.prePos /\ asked
  /\ (Handled /\ ev.route = "answerTerminate" /\ ~ev.aborted) =>
       /\ ev.preRetries + 1 >= NumberOfRepeats(PreNode)
       /\ sent = << Msg("too many invalid attempts", <<>>) >>
       /\ position = None /\ ~asked /\ retries = 0
  /\ (pc = "idle" /\ PosNode.type = "question" /\ asked) => retries = Fails

\* the event was the invalid reply that used up the attempts of the awaited
\* buttons node, and it has been handled to its end
Terminated == Handled /\ ev.route = "awaitTerminate" /\ ~ev.aborted

EndId == FindType(graph, "end").id

\* C13: while awaiting, the third unrecognised reply in a row sends one
\* terminal notice, clears every pending marker and counter and runs the end
\* node if the graph has one; afterwards position, awaiting and
\* invalidAttempts are absent and no buttons prompt was sent again
C13_ThirdInvalidEnds ==
  Terminated =>
    /\ ev.preInvalid = MaxInvalid - 1
    /\ sent = << Msg("too many invalid responses", <<>>) >>
    /\ position = None /\ awaiting = NoAwait /\ invalidCount = 0
    /\ ~asked /\ retries = 0
    /\ IF EndId # None THEN ev.endRun /\ ev.first = EndId /\ ev.steps = 1
       ELSE ev.steps = 0

\* C14: while awaiting, an unrecognised reply that is the first or second in
\* a row adds one to invalidAttempts and changes no other key, sends exactly
\* one retry prompt and executes no node
C14_InvalidReplyFrame ==
  [][(/\ pc = "idle" /\ awaiting # NoAwait /\ invalidCount < MaxInvalid - 1
      /\ ev'.route # "none" /\ ~ev'.aborted
      /\ MatchButton(awaiting.buttons,
                     normalizeLabel(toLowerCase(trim(ev'.text)))) = 0) =>
       /\ redis'.kv = [redis.kv EXCEPT !["invalidCount"] = @ + 1]
       /\ sent' = << Msg("invalid response, attempts used", <<>>) >>
       /\ ev'.route = "awaitInvalid"
       /\ pc' = "idle" /\ cur' = None /\ ev'.steps = 0]_vars

\* C14 witness: the second unrecognised reply in a row has been handled
C14_Witness ==
  /\ Handled /\ ev.route = "awaitInvalid" /\ ~ev.aborted
  /\ ev.preInvalid = 1 /\ invalidCount = 2
  /\ ev.preAwaiting /\ awaiting # NoAwait /\ position = ev.prePos

(***************************** button spellings ****************************)
\* start -> buttons(" Go  On", "No"); "go_on" -> message, "no" -> end
GraphSpell ==
  [nodes |-> << Node("s", "start"),
                [Node("b", "buttons") EXCEPT !.message = "Proceed?",
                   !.buttons = << <<" ","G","o"," "," ","O","n">>, <<"N","o">> >>],
                [Node("m", "message") EXCEPT !.message = "Going"],
                Node("e", "end") >>,
   edges |-> << Edge("s", "b", <<>>), Edge("b", "m", <<"g","o","_","o","n">>),
                Edge("b", "e", <<"n","o">>) >>]

\* for each button of node b, spellings of a reply that means it: other
\* letter case, leading and trailing whitespace, other runs of inner
\* whitespace, and the synthesized id in some letter case
Spellings ==
  << { <<"g","o"," ","o","n">>,
       <<"G","O"," "," "," ","O","N">>,
       <<" ","G","o","\t","O","n"," ">>,
       <<"b","t","n","_","1","_","g","o","_","o","n">>,
       <<"B","T","N","_","1","_","G","o","_","O","n"," "," ">> },
     { <<"n","o">>, <<" ","N","O">>, <<"B","t","n","_","2","_","N","o">> } >>

\* the inbound texts: every spelling, and two texts that spell no button
SpellTexts == Spellings[1] \cup Spellings[2] \cup { T_hi, <<"g","o","o","n">> }

SpellInit ==
  /\ graph = GraphSpell
  /\ redis = EmptyStore
  /\ pc = "idle" /\ cur = None /\ sent = <<>> /\ ev = NoEvent
  /\ visited = {} /\ stuck = 0 /\ script = 0
  /\ handlers = NoHandlers

SpellNext ==
  \/ \E text \in SpellTexts, ok \in BOOLEAN : ProcessMessage(text, ok)
  \/ ExecuteStep
  \/ Expire

SpellSpec == SpellInit /\ [][SpellNext]_vars

\* the target of the edge of node b labelled with the normalized label of
\* its button k ("go_on" -> m, "no" -> e)
SpellTarget(k) == << "m", "e" >>[k]

\* C15: every spelling of a button of a buttons node resolves to the same
\* transition, the target of the node's edge labelled with the normalized
\* button label: handled while the node is awaited, or while nothing is
\* awaited, the reply sets position to that target and executes it
C15_SpellingsResolve ==
  [][\A k \in 1..Len(Spellings) :
       (/\ pc = "idle" /\ graph = GraphSpell
        /\ ev'.route # "none" /\ ev'.text \in Spellings[k]
        /\ awaiting = NoAwait \/ awaiting.nodeId = "b") =>
         /\ position' = SpellTarget(k) /\ cur' = SpellTarget(k)
         /\ pc' = "exec"
         /\ awaiting' = NoAwait /\ invalidCount' = 0]_vars

\* C15 witness: the awaited node's first button was answered with another
\* letter case and a longer run of inner whitespace, and its target has run
C15_Witness ==
  /\ graph = GraphSpell /\ Handled /\ ev.preAwaiting /\ ev.prePos = "b"
  /\ ev.text = <<"G","O"," "," "," ","O","N">>
  /\ ev.route = "awaitMatch" /\ ev.first = "m" /\ ~ev.aborted

\* the variable names of the placeholders of the api node that ran last
ApiNames(g) ==
  LET url == FindType(g, "api").url
      holes == SelectSeq(url, LAMBDA piece : piece.kind = "var")
  IN [i \in 1..Len(holes) |-> holes[i].v]

\* C16: a binding a question node wrote is read back unchanged by every api
\* node executed later whose URL names it, as long as it has not expired;
\* once it has expired it is absent and the api node takes the
\* missing-variable failure path
C16_BindingReadBack ==
  ev.apiRan =>
    /\ Len(ev.apiRead) = Len(ApiNames(graph))
    /\ \A i \in 1..Len(ev.apiRead) :
         /\ ev.apiRead[i] = ev.wrote[ApiNames(graph)[i]]
         /\ ev.wrote[ApiNames(graph)[i]] = <<>> =>
              ev.apiMissing /\ ~ev.apiCalled

\* C16 witness: the api node ran in a later event than the answer and read
\* the address the question stored
C16_Witness ==
  /\ graph = GraphAsk /\ pc = "idle" /\ ev.apiRan /\ ~ev.aborted
  /\ ev.route = "continue" /\ ev.prePos = "a"
  /\ ev.apiRead = << << T_mail >> >> /\ ~ev.apiMissing

\* C16 witness of the expiry: the binding expired before the api node ran
C16_WitnessExpired ==
  /\ graph = GraphAsk /\ pc = "idle" /\ ev.apiRan /\ ~ev.aborted
  /\ ev.prePos = "a" /\ ev.apiRead = << <<>> >> /\ ev.apiMissing

\* the node executeNode is about to run
CurNode == FindNode(graph, cur)

\* C17: an api node (with a method and a URL) whose call fails, or whose URL
\* names a variable without binding, sends exactly one fallback text after
\* its quickReply, makes no request with a partially templated URL, and
\* continues along its default edge: position is set to the edge's target
\* and the target is executed (in the same event unless the api node waits
\* for a reply)
C17_ApiContinues ==
  [][(/\ pc = "exec" /\ CurNode.type = "api"
      /\ CurNode.method # None /\ CurNode.url # <<>>
      /\ ~ev'.aborted) =>
       LET next == findNextNode(cur, graph.edges, <<>>)
           quick == IF CurNode.quickReply # None
                      THEN << Msg(CurNode.quickReply, <<>>) >> ELSE <<>>
       IN /\ ev'.apiRan
          /\ sent' = sent \o quick \o << Msg("Failed to fetch data", <<>>) >>
          /\ ev'.apiMissing => ~ev'.apiCalled
          /\ ev'.apiCalled => \A i \in 1..Len(ev'.apiRead) : ev'.apiRead[i] # <<>>
          /\ next # None =>
               /\ position' = next
               /\ IF CurNode.waitForUserReply THEN pc' = "idle"
                  ELSE pc' = "exec" /\ cur' = next]_vars

\* C17 witness: the api node found no binding for its placeholder, sent the
\* fallback after its quickReply and handed over to the next node
C17_Witness ==
  /\ graph = GraphMisc /\ pc = "exec" /\ cur = "m" /\ position = "m"
  /\ ev.apiRan /\ ev.apiMissing /\ ~ev.apiCalled /\ ~ev.aborted
  /\ sent = << Msg("One moment", <<>>), Msg("Failed to fetch data", <<>>) >>

\* the next node of the node executeNode is about to run, for the types that
\* advance: the default edge, or the "true"/"false" edge of a keywordMatch
CurNext ==
  findNextNode(cur, graph.edges,
               IF CurNode.type # "keywordMatch" THEN <<>>
               ELSE IF KeywordMatches(CurNode, ev.text) THEN L_true
               ELSE L_false)

\* what the node executeNode is about to run sends itself
CurSends ==
  (IF CurNode.quickReply # None
     THEN << Msg(CurNode.quickReply, <<>>) >> ELSE <<>>)
  \o (IF CurNode.type = "message"
        THEN << Msg(IF CurNode.message = None THEN "Default message"
                    ELSE CurNode.message, <<>>) >>
      ELSE IF CurNode.type = "api"
        THEN << Msg("Failed to fetch data", <<>>) >>
      ELSE <<>>)

\* C18: after a start, message, keywordMatch or api node with
\* waitForUserReply = true that has a next node, position is that next node,
\* nothing else of the session changed, only the node's own messages were
\* sent and the handler has returned: the next node runs in a later event
C18_WaitSuspends ==
  [][(/\ pc = "exec"
      /\ CurNode.type \in {"start", "message", "keywordMatch", "api"}
      /\ CurNode.type = "api" => CurNode.method # None /\ CurNode.url # <<>>
      /\ CurNode.waitForUserReply /\ CurNext # None
      /\ ~ev'.aborted) =>
       /\ redis'.kv = [redis.kv EXCEPT !["position"] = CurNext]
       /\ sent' = sent \o CurSends
       /\ pc' = "idle" /\ cur' = None]_vars

\* C18 witness: the api node that waits for a reply ran alone in its event
\* and left the session at the message node after it
C18_Witness ==
  /\ graph = GraphWait /\ pc = "idle" /\ ~ev.aborted
  /\ ev.first = "a" /\ ev.steps = 1 /\ ev.apiRan
  /\ position = "m" /\ sent = << Msg("Failed to fetch data", <<>>) >>

\* C19: executing a buttons node sends one interactive prompt (after the
\* node's quickReply), sets awaiting to the node's id with its button labels,
\* clears invalidAttempts and ends the event: no other key changes and no
\* further node runs, whatever the node's edges or waitForUserReply flag
C19_ButtonsSuspend ==
  [][(pc = "exec" /\ CurNode.type = "buttons" /\ ~ev'.aborted) =>
       LET prompt == sent'[Len(sent')]
       IN /\ Len(sent') = Len(sent) + Len(CurSends) + 1
          /\ SubSeq(sent', 1, Len(sent') - 1) = sent \o CurSends
          /\ prompt.kind = "buttons"
          /\ prompt.body = (IF CurNode.message = None THEN "Choose an option:"
                            ELSE CurNode.message)
          /\ prompt.buttons = CurNode.buttons
          /\ redis'.kv = [redis.kv EXCEPT
                            !["awaiting"] =
                               [nodeId |-> cur,
                                buttons |-> [i \in 1..Len(CurNode.buttons) |->
                                   toLowerCase(trim(CurNode.buttons[i]))]],
                            !["invalidCount"] = 0]
          /\ pc' = "idle" /\ cur' = None]_vars

\* C19 witness: a buttons node with waitForUserReply and an outgoing edge ran
\* again while invalidAttempts was set, and the session is awaiting it
C19_Witness ==
  /\ graph = GraphButtons /\ pc = "idle" /\ ~ev.aborted
  /\ ev.preInvalid > 0 /\ ev.route = "continue" /\ ev.first = "b"
  /\ ev.steps = 1 /\ awaiting.nodeId = "b" /\ invalidCount = 0
  /\ position = "b"
  /\ sent = << Msg("Continue?", << T_yes, T_no >>) >>

(***************************** concurrent events ***************************)
\* the flows and texts of the concurrent runs
ConcGraphs == {GraphButtons, GraphTwoQuestions}
ConcTexts == {T_hi, T_yes, T_no}

\* executeNode from nodeId to the end of the event, run without interruption
RECURSIVE RunFrom(_, _, _, _, _)
RunFrom(g, r, nodeId, text, fuel) ==
  IF nodeId = None \/ fuel = 0 THEN r
  ELSE LET o == Execute(g, r, nodeId, text, TRUE, TRUE, FALSE, {})
       IN RunFrom(g, o.r, o.next, text, fuel - 1)

\* processMessage for one event, run without interruption
Handle(g, r, text) ==
  LET o == Classify(g, r, text, TRUE)
  IN RunFrom(g, o.r, o.next, text, MaxSteps)

\* WrittenCount as an atomic increment of the stored counter
WrittenCount_Increment(r, n) == Get(r, "invalidCount") + 1

\* the value written to buttonInvalidCount: the local invalidCount, computed
\* from the value read earlier
WrittenCount(r, n) == n

ConcInit ==
  /\ graph \in ConcGraphs
  /\ redis = EmptyStore
  /\ pc = "idle" /\ cur = None /\ sent = <<>> /\ ev = NoEvent
  /\ visited = {} /\ stuck = 0 /\ script = 0
  /\ handlers = NoHandlers

AllDone == \A i \in Handlers : handlers.h[i].pc = "done"

\* the step of execution i: the store after it and the execution after it
HandlerStep(i, r, hi) ==
  /\ redis' = r
  /\ handlers' = [handlers EXCEPT !.h[i] = hi, !.last = i]
  /\ UNCHANGED <<graph, pc, cur, sent, ev, visited, stuck, script>>

\* one event arrives and is handled alone
ArriveOne(text) ==
  /\ AllDone
  /\ handlers' = [h |-> [i \in Handlers |->
                           IF i = 1 THEN [IdleHandler EXCEPT !.pc = "arrived",
                                                             !.text = text]
                           ELSE IdleHandler],
                  base |-> redis, both |-> FALSE, last |-> 0]
  /\ UNCHANGED <<graph, redis, pc, cur, sent, ev, visited, stuck, script>>

\* two events of the session arrive before either is handled
ArriveTwo(text1, text2) ==
  /\ AllDone
  /\ handlers' = [h |-> [i \in Handlers |->
                           [IdleHandler EXCEPT !.pc = "arrived",
                              !.text = IF i = 1 THEN text1 ELSE text2]],
                  base |-> redis, both |-> TRUE, last |-> 0]
  /\ UNCHANGED <<graph, redis, pc, cur, sent, ev, visited, stuck, script>>

\* processMessage up to its first await after the awaiting key was read: a
\* reply that matches no awaited button goes on to read the counter, every
\* other event is classified (and its jump written) in this step
ReadAwaiting(i) ==
  LET hi == handlers.h[i]
      unmatched ==
        /\ awaiting # NoAwait
        /\ MatchButton(awaiting.buttons,
                       normalizeLabel(toLowerCase(trim(hi.text)))) = 0
  IN /\ hi.pc = "arrived"
     /\ IF unmatched
          THEN HandlerStep(i, redis, [hi EXCEPT !.pc = "readCount"])
        ELSE \E o \in { Classify(graph, redis, hi.text, TRUE) } :
               HandlerStep(i, o.r,
                 [hi EXCEPT !.pc = IF o.next # None THEN "exec" ELSE "done",
                            !.route = o.route,
                            !.cur = o.next])

\* redisClient.get(invalidCountKey); invalidCount += 1
ReadCount(i) ==
  LET hi == handlers.h[i]
  IN /\ hi.pc = "readCount"
     /\ HandlerStep(i, redis,
          [hi EXCEPT !.n = invalidCount + 1,
                     !.pc = IF invalidCount + 1 >= MaxInvalid
                              THEN "terminate" ELSE "writeCount"])

\* redisClient.set(invalidCountKey, invalidCount), the retry prompt, return
WriteCount(i) ==
  LET hi == handlers.h[i]
  IN /\ hi.pc = "writeCount"
     /\ HandlerStep(i, Set(redis, "invalidCount", WrittenCount(redis, hi.n)),
                    [hi EXCEPT !.pc = "done"])

\* the terminal notice, the three deletes, then the end node if there is one
Terminate(i) ==
  LET hi == handlers.h[i]
  IN /\ hi.pc = "terminate"
     /\ HandlerStep(i,
          Del(Del(Del(redis, "position"), "awaiting"), "invalidCount"),
          [hi EXCEPT !.pc = IF EndId # None THEN "exec" ELSE "done",
                     !.cur = EndId])

\* one call of executeNode of execution i
ExecOne(i) ==
  LET hi == handlers.h[i]
  IN /\ hi.pc = "exec"
     /\ \E o \in { Execute(graph, redis, hi.cur, hi.text, TRUE, TRUE, FALSE, {}) } :
          HandlerStep(i, o.r,
            [hi EXCEPT !.pc = IF o.next # None THEN "exec" ELSE "done",
                       !.cur = o.next,
                       !.ran = Min(@ + 1, MaxSteps)])

ConcNext ==
  \/ \E text \in ConcTexts : ArriveOne(text)
  \/ \E text1 \in ConcTexts, text2 \in ConcTexts : ArriveTwo(text1, text2)
  \/ \E i \in Handlers : ReadAwaiting(i)
  \/ \E i \in Handlers : ReadCount(i)
  \/ \E i \in Handlers : WriteCount(i)
  \/ \E i \in Handlers : Terminate(i)
  \/ \E i \in Handlers : ExecOne(i)

ConcSpec == ConcInit /\ [][ConcNext]_vars

\* two events were handled together, both as invalid button replies that
\* read the same counter value and wrote it back incremented, and both
\* executions have returned
LostUpdate ==
  /\ handlers.both /\ AllDone
  /\ handlers.h[1].n > 0 /\ handlers.h[1].n < MaxInvalid
  /\ handlers.h[2].n = handlers.h[1].n

\* C20: two events of one session handled concurrently are not serialised:
\* when both are invalid button replies that read invalidAttempts = n, both
\* write n + 1, and the final session state is the result of neither
\* sequential order of the two events; and when both executions have just
\* written their jump, the position key holds the value of the one that
\* wrote last
C20_NotSerialised ==
  /\ LostUpdate =>
       /\ invalidCount = Get(handlers.base, "invalidCount") + 1
       /\ invalidCount = handlers.h[1].n
       /\ redis.kv # Handle(graph, Handle(graph, handlers.base,
                                          handlers.h[1].text),
                            handlers.h[2].text).kv
       /\ redis.kv # Handle(graph, Handle(graph, handlers.base,
                                          handlers.h[2].text),
                            handlers.h[1].text).kv
  /\ (/\ handlers.both
      /\ \A i \in Handlers :
           /\ handlers.h[i].pc = "exec" /\ handlers.h[i].ran = 0
           /\ handlers.h[i].route \in {"awaitMatch", "global"}) =>
       position = handlers.h[handlers.last].cur

\* C20 witness: two invalid replies raced on the counter, which was 1: it is
\* 2 and the session still awaits, where either order ends the session
C20_Witness ==
  /\ LostUpdate /\ handlers.h[1].n = 2 /\ invalidCount = 2
  /\ awaiting # NoAwait /\ position # None
  /\ Get(Handle(graph, Handle(graph, handlers.base, handlers.h[1].text),
                handlers.h[2].text), "position") = None

(***************************** misconfigured graphs ************************)
\* no start node: question -> end
GraphNoStart ==
  [nodes |-> << [Node("q", "question") EXCEPT !.question = "Your name?",
                   !.propertyName = "name"],
                Node("e", "end") >>,
   edges |-> << Edge("q", "e", <<>>) >>]

\* two start nodes, each with its own flow
GraphTwoStarts ==
  [nodes |-> << Node("s", "start"),
                Node("s2", "start"),
                [Node("q", "question") EXCEPT !.question = "Your name?",
                   !.propertyName = "name"],
                [Node("m", "message") EXCEPT !.message = "Other"],
                Node("e", "end") >>,
   edges |-> << Edge("s", "q", <<>>), Edge("q", "e", <<>>),
                Edge("s2", "m", <<>>), Edge("m", "e", <<>>) >>]

\* edges to a node that does not exist and to a node of an unsupported type,
\* behind a question and a buttons node: Yes -> message -> "gone", No -> media; a second
\* message waits for a reply in front of another missing node
GraphBroken ==
  [nodes |-> << Node("s", "start"),
                [Node("q", "question") EXCEPT !.question = "Your name?",
                   !.propertyName = "name"],
                [Node("b", "buttons") EXCEPT !.buttons = << T_yes, T_no >>],
                [Node("m", "message") EXCEPT !.message = "Bye"],
                [Node("x", "media") EXCEPT !.quickReply = "One moment"] >>,
   edges |-> << Edge("s", "q", <<>>), Edge("q", "b", <<>>),
                Edge("b", "m", L_yes), Edge("b", "x", L_no),
                Edge("m", "gone", <<>>) >>]

\* the stored position names a node that does not exist: the message node
\* waits for a reply after the position was set to its missing target
GraphDangling ==
  [nodes |-> << Node("s", "start"),
                [Node("m", "message") EXCEPT !.message = "Bye",
                   !.waitForUserReply = TRUE] >>,
   edges |-> << Edge("s", "m", <<>>), Edge("m", "gone", <<>>) >>]

FaultGraphs == {GraphNoStart, GraphTwoStarts, GraphBroken, GraphDangling}

FaultInit ==
  /\ graph \in FaultGraphs
  /\ redis = EmptyStore
  /\ pc = "idle" /\ cur = None /\ sent = <<>> /\ ev = NoEvent
  /\ visited = {} /\ stuck = 0 /\ script = 0
  /\ handlers = NoHandlers

FaultSpec == FaultInit /\ [][Next]_vars

\* the number of start nodes of the graph
StartCount ==
  Cardinality({i \in 1..Len(graph.nodes) : graph.nodes[i].type = "start"})

\* C21: with zero start nodes, or more than one, an event on a session with
\* no stored position executes no node, sends no message and writes no
\* session field
C21_StartMisconfigured ==
  [][(/\ pc = "idle" /\ position = None /\ StartCount # 1
      /\ ev'.route # "none") =>
       /\ pc' = "idle" /\ cur' = None
       /\ sent' = <<>>
       /\ redis' = redis]_vars

\* the node types executeNode has a case for
KnownTypes ==
  {"start", "message", "keywordMatch", "buttons", "question", "api", "end"}

\* no session field of the store is set
SessionDeleted(r) == \A k \in SessionKeys : Get(r, k) = Absent(k)

\* C22: when the node to execute does not exist the session is deleted and
\* nothing is sent; when it has an unsupported type exactly one generic
\* failure message is sent and the session is terminated; no node runs
\* afterwards in that event, and the next event (one that matches no button)
\* starts from the start node
C22_FaultEndsSession ==
  [][/\ (pc = "exec" /\ CurNode = NoNode) =>
          sent' = sent /\ SessionDeleted(redis') /\ pc' = "idle"
     /\ (pc = "idle" /\ ev'.route = "noNode") =>
          sent' = <<>> /\ SessionDeleted(redis') /\ pc' = "idle"
     /\ (/\ pc = "exec" /\ CurNode # NoNode /\ CurNode.type \notin KnownTypes
         /\ ~ev'.aborted) =>
          /\ sent' = sent \o CurSends \o << Msg("Something went wrong", <<>>) >>
          /\ SessionDeleted(redis') /\ pc' = "idle"
     /\ (/\ pc = "idle" /\ ev.fault # "none" /\ ~ev.aborted
         /\ ev'.route # "none"
         /\ GlobalTarget(graph, normalizeLabel(toLowerCase(trim(ev'.text)))) = None
         /\ StartId # None) =>
          pc' = "exec" /\ cur' = StartId]_vars

(***************************** failing reads *******************************)
\* the branches of processMessage that are decided before the position key
\* is read
EarlyRoutes == {"awaitMatch", "awaitInvalid", "awaitTerminate", "global"}

\* processMessage up to its call of executeNode when redisClient.get of the
\* session key `key` rejects: the reads of awaitingButtonResponse,
\* buttonInvalidCount and the position are inside try/catch and leave the
\* initial value (undefined, 0, null); the reads of asked and retries are
\* not, so the rejection leaves processMessage when it reaches them
ClassifyUnreadable(g, r, text, ok, key) ==
  LET normalizedInput == normalizeLabel(toLowerCase(trim(text)))
      aw == Get(r, "awaiting")
      m == MatchButton(aw.buttons, normalizedInput)
      globalNext == GlobalTarget(g, normalizedInput)
      plain == Classify(g, r, text, ok)
      currentNode == FindNode(g, CurrentNodeId(g, r))
      atQuestion == /\ plain.route \notin EarlyRoutes
                    /\ currentNode.type = "question"
  IN CASE key = "awaiting" ->
            IF ScanThrows(g, normalizedInput)
              THEN Thrown(r, <<>>, "typeError")
            ELSE IF globalNext # None
              THEN Outcome(Jump(r, globalNext), <<>>, globalNext, "global")
            ELSE Continue(g, r, text, ok)
       [] key = "invalidCount" ->
            IF aw # NoAwait /\ m = 0
              THEN InvalidReply(g, Del(r, "invalidCount"), ok)
            ELSE plain
       [] key = "position" ->
            IF plain.route \in EarlyRoutes THEN plain
            ELSE [Continue(g, Del(r, "position"), text, ok) EXCEPT !.r = r]
       [] key = "asked" ->
            IF atQuestion THEN Thrown(r, <<>>, "readFailed") ELSE plain
       [] OTHER ->
            IF atQuestion /\ Get(r, "asked")
              THEN Thrown(r, <<>>, "readFailed") ELSE plain

\* an inbound event is handled while the read of one session key fails
ProcessMessageUnreadable(text, ok, key) ==
  /\ pc = "idle"
  /\ \E o \in { ClassifyUnreadable(graph, redis, text, ok, key) } :
        Step(o,
             [NoEvent EXCEPT !.text = text, !.route = o.route,
                !.aborted = o.aborted, !.deleted = o.deleted,
                !.fault = o.fault, !.unreadable = key,
                !.prePos = position, !.preAwaiting = (awaiting # NoAwait),
                !.preAsked = asked, !.preInvalid = invalidCount,
                !.preRetries = retries, !.preLimit = BlockLimit(graph, redis),
                !.failsQ = FailsQ(o, CurrentNodeId(graph, redis)),
                !.failsN = FailsN(o, CurrentNodeId(graph, redis)),
                !.wrote = Wrote(o, FindNode(graph, CurrentNodeId(graph, redis)),
                                text)],
             <<>>,
             OffScript)

\* events are handled with and without a failing read; no key expires; the
\* texts are the button, an invalid reply and a valid answer
ReadFailNext ==
  \/ \E text \in {T_yes, T_bad, T_mail}, ok \in BOOLEAN : ProcessMessage(text, ok)
  \/ ExecuteStep
  \/ \E text \in {T_yes, T_bad, T_mail}, ok \in BOOLEAN, key \in SessionKeys :
       ProcessMessageUnreadable(text, ok, key)

\* the flow run with failing reads blocks on a button and asks a question
ReadFailInit == Init /\ graph = GraphLeaf

ReadFailSpec == ReadFailInit /\ [][ReadFailNext]_vars

\* C23: a failing read of a session field never aborts the handling of the
\* event: the event is handled as if the field were absent, for every
\* session field, questionPending (asked) and retries included
C23_ReadFailureDefaults ==
  [][(pc = "idle" /\ ev'.unreadable # None) =>
       LET asAbsent == Classify(graph, Del(redis, ev'.unreadable), ev'.text, TRUE)
       IN /\ ev'.route = asAbsent.route
          /\ ~ev'.aborted => cur' = asAbsent.next]_vars

(***************************** button replies ******************************)
B_promo == <<"p","r","o","m","o">>
T_promo == <<"P","r","o","m","o">>
B_info  == <<"i","n","f","o">>
T_info  == <<"I","n","f","o">>

\* start -> buttons(Yes, No); Yes -> message("Done", waits) -> end; and a
\* buttons node outside the flow with two object entries, one with an action
GraphSmart ==
  [nodes |-> << Node("s", "start"),
                [Node("b", "buttons") EXCEPT !.message = "Continue?",
                   !.buttons = << T_yes, T_no >>],
                [Node("m", "message") EXCEPT !.message = "Done",
                   !.waitForUserReply = TRUE],
                Node("e", "end"),
                [Node("p", "buttons") EXCEPT !.message = "Offers",
                   !.smart = << Button(B_promo, T_promo, "FETCH_AND_SEND_MEDIA"),
                                Button(B_info, T_info, None) >>] >>,
   edges |-> << Edge("s", "b", <<>>), Edge("b", "m", L_yes),
                Edge("m", "e", <<>>) >>]

NoConfig == Button(None, None, None)

\* findButtonConfig with the entries compared by their title
findButtonConfig_ByTitle(buttonId, g) ==
  LET found(i) == /\ g.nodes[i].type = "buttons"
                  /\ \E k \in 1..Len(g.nodes[i].smart) :
                       g.nodes[i].smart[k].title = buttonId
      node == g.nodes[CHOOSE i \in 1..Len(g.nodes) :
                        found(i) /\ \A j \in 1..(i-1) : ~found(j)]
  IN IF \E i \in 1..Len(g.nodes) : found(i)
       THEN node.smart[CHOOSE k \in 1..Len(node.smart) :
                         /\ node.smart[k].title = buttonId
                         /\ \A l \in 1..(k-1) : node.smart[l].title # buttonId]
     ELSE NoConfig

\* findButtonConfig: the first entry with `b.id === buttonId` of the first
\* buttons node that has one; a string entry has no id and is never found
findButtonConfig(buttonId, g) ==
  LET found(i) == /\ g.nodes[i].type = "buttons"
                  /\ \E k \in 1..Len(g.nodes[i].smart) :
                       g.nodes[i].smart[k].id = buttonId
      node == g.nodes[CHOOSE i \in 1..Len(g.nodes) :
                        found(i) /\ \A j \in 1..(i-1) : ~found(j)]
  IN IF \E i \in 1..Len(g.nodes) : found(i)
       THEN node.smart[CHOOSE k \in 1..Len(node.smart) :
                         /\ node.smart[k].id = buttonId
                         /\ \A l \in 1..(k-1) : node.smart[l].id # buttonId]
     ELSE NoConfig

\* the Action Resolver: the external call is made and its response sent as
\* a media message; a failure is reported with a generic fallback; no
\* session key is read or written
handleButtonAction(r, fetchOk) ==
  Outcome(r,
          << IF fetchOk THEN [kind |-> "media", body |-> "media", buttons |-> <<>>]
             ELSE Msg("Something went wrong", <<>>) >>,
          None, "action")

\* the button replies that arrive: the id and the title of a button
Replies ==
  { << ButtonId(1, T_yes), T_yes >>, << ButtonId(2, T_no), T_no >>,
    << B_promo, T_promo >>, << B_info, T_info >> }

\* handleIncomingMessage on a button_reply: handleButtonAction when the
\* button's configuration has an action, processMessage with the title
\* otherwise
ButtonReply(buttonId, buttonTitle, ok, fetchOk) ==
  /\ pc = "idle"
  /\ \E buttonConfig \in { findButtonConfig(buttonId, graph) } :
     \E o \in { IF buttonConfig.action # None
                  THEN handleButtonAction(redis, fetchOk)
                ELSE Classify(graph, redis, buttonTitle, ok) } :
        Step(o,
             [NoEvent EXCEPT !.text = buttonTitle, !.route = o.route,
                !.aborted = o.aborted, !.deleted = o.deleted,
                !.fault = o.fault, !.reply = << buttonId, buttonTitle >>,
                !.prePos = position, !.preAwaiting = (awaiting # NoAwait),
                !.preAsked = asked, !.preInvalid = invalidCount,
                !.preRetries = retries, !.preLimit = BlockLimit(graph, redis),
                !.failsQ = FailsQ(o, CurrentNodeId(graph, redis)),
                !.failsN = FailsN(o, CurrentNodeId(graph, redis)),
                !.wrote = Wrote(o, FindNode(graph, CurrentNodeId(graph, redis)),
                                buttonTitle)],
             <<>>,
             OffScript)

ButtonInit ==
  /\ graph \in {GraphSmart, GraphButtons}
  /\ redis = EmptyStore
  /\ pc = "idle" /\ cur = None /\ sent = <<>> /\ ev = NoEvent
  /\ visited = {} /\ stuck = 0 /\ script = 0
  /\ handlers = NoHandlers

\* text events and button replies
ButtonNext ==
  \/ Next
  \/ \E reply \in Replies, ok \in BOOLEAN, fetchOk \in BOOLEAN :
       ButtonReply(reply[1], reply[2], ok, fetchOk)

ButtonSpec == ButtonInit /\ [][ButtonNext]_vars

GraphNoKeywords ==
  [nodes |-> << Node("s", "start"),
                Node("k", "keywordMatch"),
                [Node("m", "message") EXCEPT !.message = "Matched",
                   !.waitForUserReply = TRUE],
                [Node("n", "message") EXCEPT !.message = "No match",
                   !.waitForUserReply = TRUE],
                Node("e", "end") >>,
   edges |-> << Edge("s", "k", <<>>), Edge("k", "m", L_true),
                Edge("k", "n", L_false), Edge("m", "e", <<>>),
                Edge("n", "e", <<>>) >>]

KeywordInit ==
  /\ graph \in {GraphNoKeywords, GraphMisc, GraphWait}
  /\ redis = EmptyStore
  /\ pc = "idle" /\ cur = None /\ sent = <<>> /\ ev = NoEvent
  /\ visited = {} /\ stuck = 0 /\ script = 0
  /\ handlers = NoHandlers

KeywordSpec == KeywordInit /\ [][Next]_vars

\* C25: a keywordMatch node follows its "true" edge exactly when the text
\* contains, ignoring case, one of the keywords of its comma-separated list,
\* and its "false" edge otherwise; without keywords it follows "false"
C25_KeywordEdge ==
  [][(pc = "exec" /\ CurNode.type = "keywordMatch" /\ ~ev'.aborted) =>
       LET listed == IF CurNode.keywords = <<>> THEN <<>>
                     ELSE Keywords(CurNode)
           some == \E i \in 1..Len(listed) :
                     includes(toLowerCase(ev.text), listed[i])
           next == findNextNode(cur, graph.edges,
                                IF some THEN L_true ELSE L_false)
       IN /\ position' = next
          /\ (next # None /\ ~CurNode.waitForUserReply) =>
               pc' = "exec" /\ cur' = next]_vars

(***************************** runs without expiry *************************)
NoExpiryInit ==
  /\ graph \in Graphs \cup FaultGraphs
  /\ redis = EmptyStore
  /\ pc = "idle" /\ cur = None /\ sent = <<>> /\ ev = NoEvent
  /\ visited = {} /\ stuck = 0 /\ script = 0
  /\ handlers = NoHandlers

\* events are handled one at a time and no key expires
NoExpiryNext ==
  \/ \E text \in Texts, ok \in BOOLEAN : ProcessMessage(text, ok)
  \/ ExecuteStep

NoExpirySpec == NoExpiryInit /\ [][NoExpiryNext]_vars

\* C26: without expiry, after every event that leaves awaiting set the
\* position key is present and names the buttons node of awaiting
C26_PointerAtBlockingNode ==
  (pc = "idle" /\ awaiting # NoAwait) => position = awaiting.nodeId

\* C26 witness: a second invalid reply was counted at the blocking node
C26_Witness ==
  /\ pc = "idle" /\ awaiting # NoAwait /\ position = awaiting.nodeId
  /\ ev.route = "awaitInvalid" /\ invalidCount = 2

(***************************** more than three buttons *********************)
T_maybe == <<"M","a","y","b","e">>
T_later == <<"L","a","t","e","r">>

\* a buttons node with four labels, the fourth with an edge of its own
GraphFour ==
  [nodes |-> << Node("s", "start"),
                [Node("b", "buttons") EXCEPT !.message = "Pick",
                   !.buttons = << T_yes, T_no, T_maybe, T_later >>],
                [Node("m", "message") EXCEPT !.message = "Done"],
                [Node("n", "message") EXCEPT !.message = "Later then"],
                Node("e", "end") >>,
   edges |-> << Edge("s", "b", <<>>), Edge("b", "m", L_yes),
                Edge("b", "n", toLowerCase(T_later)), Edge("m", "e", <<>>),
                Edge("n", "e", <<>>) >>]

\* two buttons nodes in a row, every button of the second with an edge
GraphTwoMenus ==
  [nodes |-> << Node("s", "start"),
                [Node("b", "buttons") EXCEPT !.message = "Continue?",
                   !.buttons = << T_yes, T_no >>],
                [Node("c", "buttons") EXCEPT !.message = "When?",
                   !.buttons = << T_maybe, T_later >>],
                [Node("m", "message") EXCEPT !.message = "Done"],
                Node("e", "end") >>,
   edges |-> << Edge("s", "b", <<>>), Edge("b", "c", L_yes),
                Edge("b", "e", L_no), Edge("c", "m", toLowerCase(T_later)),
                Edge("c", "e", <<"m","a","y","b","e">>),
                Edge("m", "e", <<>>) >>]

LimitInit ==
  /\ graph \in {GraphFour, GraphTwoMenus}
  /\ redis = EmptyStore
  /\ pc = "idle" /\ cur = None /\ sent = <<>> /\ ev = NoEvent
  /\ visited = {} /\ stuck = 0 /\ script = 0
  /\ handlers = NoHandlers

LimitNext ==
  \/ \E text \in {T_hi, T_yes, T_later, ButtonId(4, T_later), T_bad},
          ok \in BOOLEAN : ProcessMessage(text, ok)
  \/ ExecuteStep
  \/ Expire

LimitSpec == LimitInit /\ [][LimitNext]_vars

\* the buttons of the prompt that reached the user
Prompted(buttons) ==
  IF Len(buttons) > 3 THEN SubSeq(buttons, 1, 3) ELSE buttons

\* C27: while a buttons node is awaited, a reply is accepted as a match of
\* one of its buttons exactly when it matches one of the (at most three)
\* buttons that were sent in the prompt
C27_OnlySentButtonsAccepted ==
  [][(pc = "idle" /\ awaiting # NoAwait /\ ev'.route # "none") =>
       LET normalizedInput == normalizeLabel(toLowerCase(trim(ev'.text)))
           m == MatchButton(Prompted(awaiting.buttons), normalizedInput)
       IN /\ ev'.route = "awaitMatch" => m > 0
          /\ (/\ m > 0
              /\ findNextNode(awaiting.nodeId, graph.edges,
                              normalizeLabel(awaiting.buttons[m])) # None)
               => ev'.route = "awaitMatch"]_vars

(***************************** awaited before global ***********************)
\* C28: while awaiting is set, a reply that matches no button of the awaited
\* node is handled as an invalid reply, whatever other buttons node it
\* matches: no jump is made, and unless the gateway send fails the invalid
\* counter goes up by one or, at the third one, the session is ended
C28_AwaitedBeforeGlobal ==
  [][(/\ pc = "idle" /\ awaiting # NoAwait /\ ev'.route # "none"
      /\ MatchButton(awaiting.buttons,
                     normalizeLabel(toLowerCase(trim(ev'.text)))) = 0) =>
       /\ ev'.route \in {"awaitInvalid", "awaitTerminate"}
       /\ cur' \in {None, EndId}
       /\ position' \in {position, None}
       /\ ~ev'.aborted =>
            IF invalidCount + 1 < MaxInvalid
              THEN /\ invalidCount' = invalidCount + 1
                   /\ awaiting' = awaiting /\ position' = position
                   /\ pc' = "idle"
            ELSE /\ position' = None /\ awaiting' = NoAwait
                 /\ invalidCount' = 0]_vars

\* C28 witness: the reply to the first buttons node was a button of the
\* second one, which has an edge, and was counted as invalid
C28_Witness ==
  /\ pc = "idle" /\ ev.route = "awaitInvalid" /\ ~ev.aborted
  /\ graph = GraphTwoMenus
  /\ awaiting # NoAwait /\ awaiting.nodeId = "b" /\ position = "b"
  /\ ev.text = T_later
  /\ GlobalTarget(graph, normalizeLabel(toLowerCase(trim(ev.text)))) = "m"
  /\ invalidCount = 1

(***************************** prompts and markers *************************)
\* the prompt of the buttons or question node executeNode is about to run
CurPrompt ==
  IF CurNode.type = "buttons"
    THEN Msg(IF CurNode.message = None THEN "Choose an option:"
             ELSE CurNode.message, CurNode.buttons)
  ELSE Msg(IF CurNode.question = None THEN "Please reply:"
           ELSE CurNode.question, <<>>)

\* C29: a buttons or question node whose gateway send fails sets neither
\* awaiting nor asked and leaves the position at the node; a marker is set
\* only in a step that sent the node's prompt, and the node sends its prompt
\* whenever it is executed without its marker and the send succeeds
C29_MarkerAfterPrompt ==
  [][(pc = "exec" /\ CurNode.type \in {"buttons", "question"}) =>
       LET quick == IF CurNode.quickReply # None
                      THEN << Msg(CurNode.quickReply, <<>>) >> ELSE <<>>
       IN /\ ev'.aborted =>
               /\ awaiting' = awaiting /\ asked' = asked
               /\ position' = position
               /\ pc' = "idle"
          /\ (awaiting' # awaiting \/ asked' # asked) =>
               /\ ~ev'.aborted
               /\ sent' = Log(sent, quick \o << CurPrompt >>)
          /\ (~ev'.aborted /\ (CurNode.type = "buttons" \/ ~asked)) =>
               /\ sent' = Log(sent, quick \o << CurPrompt >>)
               /\ CurNode.type = "buttons" => awaiting'.nodeId = cur
               /\ CurNode.type = "question" => asked']_vars

\* C29 witness: the send of a question prompt failed; the position is at
\* the question and asked is not set
C29_Witness ==
  /\ pc = "idle" /\ ev.aborted
  /\ ev.arrivedQ # None /\ position = ev.arrivedQ
  /\ ~ev.prompted /\ ~asked

====
